---- MODULE Spec2Model ----
(***************************************************************************)
(* The tongue state machine of the Anteater game (src/game.py): the        *)
(* Anteater object, the key handlers of the main loop that drive it, and   *)
(* the per-frame update.                                                   *)
(***************************************************************************)
EXTENDS Integers, Sequences, FiniteSets, TLC

\* ---- program constants (src/game.py) ----
WIDTH == 800
HEIGHT == 600
grid_size == 20
move_cooldown == 5
max_segments == 40
min_loop_area == 2
capture_delay_frames == 60

\* ---- bounds of the exploration ----
\* Spec: the player steers freely and lets the tongue grow to at most MaxLen cells
MaxLen == 5
\* SpecLong: the player runs the tongue straight down to the bottom row and then
\* left, and steers freely over the last LongFree cells below max_segments
LongFree == 3
\* the number of ants on screen
NumAnts == 1
\* the polygon functions are applied to every cell set of a window of
\* TraceSide columns and three rows of cells
TraceSide == 3

\* pygame.Rect(WIDTH // 2 - 25, 50, 50, 50): centerx and bottom
rect_centerx == (WIDTH \div 2 - 25) + 50 \div 2
rect_bottom == 50 + 50

\* a variant of start_cell: the cell of the top of the rect, not of its bottom
start_cell_at_top == <<rect_centerx \div grid_size, 50 \div grid_size>>

\* the spawn cell computed by __init__ and reset_tongue
start_cell == <<rect_centerx \div grid_size, rect_bottom \div grid_size>>

LEFT == <<-1, 0>>
RIGHT == <<1, 0>>
UP == <<0, -1>>
DOWN == <<0, 1>>
\* the arrow key held in a frame, "none" when no arrow key is down
Keys == {"left", "right", "up", "down", "none"}

\* the ants list: slot a holds the ant at position a of the list
Ants == 1..NumAnts
\* the pixel positions (rect.centerx, rect.centery) an ant is observed at:
\* FarPoints, away from every tongue explored, and NearPoints, which adds the
\* centre of the cell left of and below the spawn cell
FarPoints == {<<WIDTH - 10, rect_bottom + 10>>}
NearPoints == FarPoints \cup {<<rect_centerx - 10, rect_bottom + 30>>}

VARIABLES
    tongue,          \* deque of cells, head first
    direction,
    next_direction,
    extending,
    retracting,
    move_timer,
    loop_active,
    loop_cells,
    capture_timer,
    loop_path,
    trapped_ants,    \* the slots of the ants in anteater.trapped_ants
    ants,            \* slot -> the ant's trapped flag
    pc,              \* the section of the main loop's frame that runs next
    visited,         \* history: the cells entered since the spawn cell, oldest first
    outcome,         \* history: the branches the last update() took, and the
                     \* arrow key handle_input() has read since
    players,         \* the rows of table players
    scores,          \* the rows of table scores
    score_seq,       \* the AUTO_INCREMENT counter of scores.score_id
    db_result        \* history: the last call into auth.py, and how it ended

anteater == <<tongue, direction, next_direction, extending, retracting, move_timer,
              loop_active, loop_cells, capture_timer, loop_path, trapped_ants>>

game == <<anteater, ants, pc, visited, outcome>>

db == <<players, scores, score_seq, db_result>>

vars == <<game, db>>

\* ---- helpers ----
Cells(s) == {s[i] : i \in 1..Len(s)}

\* list.index(c): the first position of c, counted from 0
IndexOf(s, c) == CHOOSE i \in 0..(Len(s) - 1) :
                     /\ s[i + 1] = c
                     /\ \A j \in 0..(i - 1) : s[j + 1] # c

max_x == WIDTH \div grid_size - 1
max_y == HEIGHT \div grid_size - 1

\* a variant of OutOfBounds: the lower edge is not checked
OutOfBoundsNoBottom(c) == c[1] < 0 \/ c[1] > max_x \/ c[2] < 0

\* the bounds check of update()
OutOfBounds(c) == c[1] < 0 \/ c[1] > max_x \/ c[2] < 0 \/ c[2] > max_y

\* the Anteater fields update() reads and writes, as one record
Self == [tongue |-> tongue, direction |-> direction, next_direction |-> next_direction,
         extending |-> extending, retracting |-> retracting, move_timer |-> move_timer,
         loop_active |-> loop_active, loop_cells |-> loop_cells,
         capture_timer |-> capture_timer, loop_path |-> loop_path]

\* a variant of FormLoop: the colliding head is pushed on the tongue as well
FormLoopPushesHead(s, new_head) ==
    LET idx == IndexOf(s.tongue, new_head)
        loop_segment == SubSeq(s.tongue, 1, idx + 1)
    IN [s EXCEPT !.tongue = <<new_head>> \o s.tongue,
                 !.loop_path = loop_segment,
                 !.loop_cells = Cells(loop_segment),
                 !.loop_active = TRUE,
                 !.capture_timer = capture_delay_frames,
                 !.extending = FALSE,
                 !.retracting = TRUE]

\* a variant of FormLoop: the slice [:idx] leaves the revisited cell out
FormLoopShortSlice(s, new_head) ==
    LET idx == IndexOf(s.tongue, new_head)
        loop_segment == SubSeq(s.tongue, 1, idx)
    IN [s EXCEPT !.loop_path = loop_segment,
                 !.loop_cells = Cells(loop_segment),
                 !.loop_active = TRUE,
                 !.capture_timer = capture_delay_frames,
                 !.extending = FALSE,
                 !.retracting = TRUE]

\* the self-collision branch of update(): the loop is the prefix up to the hit
FormLoop(s, new_head) ==
    LET idx == IndexOf(s.tongue, new_head)
        loop_segment == SubSeq(s.tongue, 1, idx + 1)
    IN [s EXCEPT !.loop_path = loop_segment,
                 !.loop_cells = Cells(loop_segment),
                 !.loop_active = TRUE,
                 !.capture_timer = capture_delay_frames,
                 !.extending = FALSE,
                 !.retracting = TRUE]

\* a variant of Extend: the length test is <= max_segments
ExtendOffByOne(s, new_head) ==
    IF Len(s.tongue) <= max_segments
    THEN [s EXCEPT !.tongue = <<new_head>> \o s.tongue]
    ELSE [s EXCEPT !.extending = FALSE, !.retracting = TRUE]

\* a variant of Extend: at max length extending stops, retracting is not started
ExtendMaxNoRetract(s, new_head) ==
    IF Len(s.tongue) < max_segments
    THEN [s EXCEPT !.tongue = <<new_head>> \o s.tongue]
    ELSE [s EXCEPT !.extending = FALSE]

\* a variant of Extend: append in place of appendleft
ExtendAtTail(s, new_head) ==
    IF Len(s.tongue) < max_segments
    THEN [s EXCEPT !.tongue = s.tongue \o <<new_head>>]
    ELSE [s EXCEPT !.extending = FALSE, !.retracting = TRUE]

\* the extend branch of update(): grow at the head, or give up at max length
Extend(s, new_head) ==
    IF Len(s.tongue) < max_segments
    THEN [s EXCEPT !.tongue = <<new_head>> \o s.tongue]
    ELSE [s EXCEPT !.extending = FALSE, !.retracting = TRUE]

\* a variant of ExtendPart: the cooldown test is move_timer > move_cooldown
ExtendPartSlow(s) ==
    IF ~(s.extending /\ ~s.loop_active)
    THEN [s |-> s, ret |-> FALSE, ext |-> "off"]
    ELSE IF s.move_timer + 1 <= move_cooldown
    THEN [s |-> [s EXCEPT !.move_timer = s.move_timer + 1], ret |-> FALSE, ext |-> "wait"]
    ELSE LET s1 == [s EXCEPT !.move_timer = 0, !.direction = s.next_direction]
             new_head == <<s1.tongue[1][1] + s1.direction[1],
                           s1.tongue[1][2] + s1.direction[2]>>
         IN IF OutOfBounds(new_head)
            THEN [s |-> [s1 EXCEPT !.extending = FALSE, !.retracting = TRUE],
                  ret |-> TRUE, ext |-> "oob"]
            ELSE IF new_head \in Cells(s1.tongue)
            THEN [s |-> FormLoop(s1, new_head), ret |-> FALSE, ext |-> "loop"]
            ELSE [s |-> Extend(s1, new_head), ret |-> FALSE,
                  ext |-> IF Len(s1.tongue) < max_segments THEN "extended" ELSE "max"]

\* a variant of ExtendPart: the guard does not test loop_active
ExtendPartIgnoresLoop(s) ==
    IF ~s.extending
    THEN [s |-> s, ret |-> FALSE, ext |-> "off"]
    ELSE IF s.move_timer + 1 < move_cooldown
    THEN [s |-> [s EXCEPT !.move_timer = s.move_timer + 1], ret |-> FALSE, ext |-> "wait"]
    ELSE LET s1 == [s EXCEPT !.move_timer = 0, !.direction = s.next_direction]
             new_head == <<s1.tongue[1][1] + s1.direction[1],
                           s1.tongue[1][2] + s1.direction[2]>>
         IN IF OutOfBounds(new_head)
            THEN [s |-> [s1 EXCEPT !.extending = FALSE, !.retracting = TRUE],
                  ret |-> TRUE, ext |-> "oob"]
            ELSE IF new_head \in Cells(s1.tongue)
            THEN [s |-> FormLoop(s1, new_head), ret |-> FALSE, ext |-> "loop"]
            ELSE [s |-> Extend(s1, new_head), ret |-> FALSE,
                  ext |-> IF Len(s1.tongue) < max_segments THEN "extended" ELSE "max"]

\* the first half of update(): [s: the fields afterwards, ret: update returned
\* early, ext: which branch ran]
ExtendPart(s) ==
    IF ~(s.extending /\ ~s.loop_active)
    THEN [s |-> s, ret |-> FALSE, ext |-> "off"]
    ELSE IF s.move_timer + 1 < move_cooldown
    THEN [s |-> [s EXCEPT !.move_timer = s.move_timer + 1], ret |-> FALSE, ext |-> "wait"]
    ELSE LET s1 == [s EXCEPT !.move_timer = 0, !.direction = s.next_direction]
             new_head == <<s1.tongue[1][1] + s1.direction[1],
                           s1.tongue[1][2] + s1.direction[2]>>
         IN IF OutOfBounds(new_head)
            THEN [s |-> [s1 EXCEPT !.extending = FALSE, !.retracting = TRUE],
                  ret |-> TRUE, ext |-> "oob"]
            ELSE IF new_head \in Cells(s1.tongue)
            THEN [s |-> FormLoop(s1, new_head), ret |-> FALSE, ext |-> "loop"]
            ELSE [s |-> Extend(s1, new_head), ret |-> FALSE,
                  ext |-> IF Len(s1.tongue) < max_segments THEN "extended" ELSE "max"]

\* a variant of RetractPart: pop() in place of popleft()
RetractPartPopsTail(s) ==
    IF ~s.retracting
    THEN [s |-> s, rtr |-> "off"]
    ELSE IF s.move_timer + 1 < move_cooldown
    THEN [s |-> [s EXCEPT !.move_timer = s.move_timer + 1], rtr |-> "wait"]
    ELSE IF Len(s.tongue) > 1
    THEN [s |-> [s EXCEPT !.move_timer = 0,
                          !.tongue = SubSeq(s.tongue, 1, Len(s.tongue) - 1)],
          rtr |-> "popped"]
    ELSE [s |-> [s EXCEPT !.move_timer = 0, !.retracting = FALSE,
                          !.direction = DOWN, !.next_direction = DOWN],
          rtr |-> "idle"]

\* a variant of RetractPart: loop_path shares the tongue's cells, so that a pop
\* of the head removes it from loop_path too
RetractPartAliasesLoop(s) ==
    IF ~s.retracting
    THEN [s |-> s, rtr |-> "off"]
    ELSE IF s.move_timer + 1 < move_cooldown
    THEN [s |-> [s EXCEPT !.move_timer = s.move_timer + 1], rtr |-> "wait"]
    ELSE IF Len(s.tongue) > 1
    THEN [s |-> [s EXCEPT !.move_timer = 0, !.tongue = Tail(s.tongue),
                          !.loop_path = IF s.loop_path # <<>> /\ s.loop_path[1] = s.tongue[1]
                                        THEN Tail(s.loop_path) ELSE s.loop_path],
          rtr |-> "popped"]
    ELSE [s |-> [s EXCEPT !.move_timer = 0, !.retracting = FALSE,
                          !.direction = DOWN, !.next_direction = DOWN],
          rtr |-> "idle"]

\* a variant of RetractPart: full retraction leaves the directions as they are
RetractPartKeepsDirection(s) ==
    IF ~s.retracting
    THEN [s |-> s, rtr |-> "off"]
    ELSE IF s.move_timer + 1 < move_cooldown
    THEN [s |-> [s EXCEPT !.move_timer = s.move_timer + 1], rtr |-> "wait"]
    ELSE IF Len(s.tongue) > 1
    THEN [s |-> [s EXCEPT !.move_timer = 0, !.tongue = Tail(s.tongue)], rtr |-> "popped"]
    ELSE [s |-> [s EXCEPT !.move_timer = 0, !.retracting = FALSE], rtr |-> "idle"]

\* a variant of RetractPart: the timer test is > instead of >=
RetractPartSlow(s) ==
    IF ~s.retracting
    THEN [s |-> s, rtr |-> "off"]
    ELSE IF s.move_timer + 1 <= move_cooldown
    THEN [s |-> [s EXCEPT !.move_timer = s.move_timer + 1], rtr |-> "wait"]
    ELSE IF Len(s.tongue) > 1
    THEN [s |-> [s EXCEPT !.move_timer = 0, !.tongue = Tail(s.tongue)], rtr |-> "popped"]
    ELSE [s |-> [s EXCEPT !.move_timer = 0, !.retracting = FALSE,
                          !.direction = DOWN, !.next_direction = DOWN],
          rtr |-> "idle"]

\* the second half of update(): [s: the fields afterwards, rtr: which branch ran]
RetractPart(s) ==
    IF ~s.retracting
    THEN [s |-> s, rtr |-> "off"]
    ELSE IF s.move_timer + 1 < move_cooldown
    THEN [s |-> [s EXCEPT !.move_timer = s.move_timer + 1], rtr |-> "wait"]
    ELSE IF Len(s.tongue) > 1
    THEN [s |-> [s EXCEPT !.move_timer = 0, !.tongue = Tail(s.tongue)], rtr |-> "popped"]
    ELSE [s |-> [s EXCEPT !.move_timer = 0, !.retracting = FALSE,
                          !.direction = DOWN, !.next_direction = DOWN],
          rtr |-> "idle"]

\* Anteater.update()
UpdateResult(s) ==
    LET e == ExtendPart(s)
        r == IF e.ret THEN [s |-> e.s, rtr |-> "off"] ELSE RetractPart(e.s)
    IN [s |-> r.s, ext |-> e.ext, rtr |-> r.rtr]

\* a variant of handle_input: the reversal test reads next_direction
HandleInputChecksBuffered(key, dir, next) ==
    IF key = "left" THEN (IF next # RIGHT THEN LEFT ELSE next)
    ELSE IF key = "right" THEN (IF next # LEFT THEN RIGHT ELSE next)
    ELSE IF key = "up" THEN (IF next # DOWN THEN UP ELSE next)
    ELSE IF key = "down" THEN (IF next # UP THEN DOWN ELSE next)
    ELSE next

\* a variant of handle_input: no test against the current direction
HandleInputNoReversalTest(key, dir, next) ==
    IF key = "left" THEN LEFT
    ELSE IF key = "right" THEN RIGHT
    ELSE IF key = "up" THEN UP
    ELSE IF key = "down" THEN DOWN
    ELSE next

\* Anteater.handle_input(keys): the new next_direction
HandleInputResult(key, dir, next) ==
    IF key = "left" THEN (IF dir # RIGHT THEN LEFT ELSE next)
    ELSE IF key = "right" THEN (IF dir # LEFT THEN RIGHT ELSE next)
    ELSE IF key = "up" THEN (IF dir # DOWN THEN UP ELSE next)
    ELSE IF key = "down" THEN (IF dir # UP THEN DOWN ELSE next)
    ELSE next


\* ---- the loop polygon: get_loop_polygon_pixels ----
\* a variant of CellCorners: anticlockwise from the top left
CellCornersAnticlockwise(c) ==
    LET x0 == c[1] * grid_size
        y0 == c[2] * grid_size
        x1 == x0 + grid_size
        y1 == y0 + grid_size
    IN << <<x0, y0>>, <<x0, y1>>, <<x1, y1>>, <<x1, y0>> >>

\* the four corners of a cell in pixels, clockwise from the top left
CellCorners(c) ==
    LET x0 == c[1] * grid_size
        y0 == c[2] * grid_size
        x1 == x0 + grid_size
        y1 == y0 + grid_size
    IN << <<x0, y0>>, <<x1, y0>>, <<x1, y1>>, <<x0, y1>> >>

\* a variant of CellNeighbors: left and right change places
CellNeighborsSwapped(c) ==
    << <<c[1], c[2] - 1>>, <<c[1] - 1, c[2]>>, <<c[1], c[2] + 1>>, <<c[1] + 1, c[2]>> >>

\* the four neighbours of a cell: up, right, down, left
CellNeighbors(c) ==
    << <<c[1], c[2] - 1>>, <<c[1] + 1, c[2]>>, <<c[1], c[2] + 1>>, <<c[1] - 1, c[2]>> >>

\* a variant of BoundaryEdges: every side of every cell
BoundaryEdgesAllSides(cells) ==
    UNION {{<<CellCorners(c)[i], CellCorners(c)[(i % 4) + 1]>> : i \in 1..4} : c \in cells}

\* the edges set: side i of a cell, when neighbour i is not in the set
BoundaryEdges(cells) ==
    UNION {{<<CellCorners(c)[i], CellCorners(c)[(i % 4) + 1]>> :
               i \in {j \in 1..4 : CellNeighbors(c)[j] \notin cells}} : c \in cells}

\* the key of min(adj.keys(), key=lambda p: (p[1], p[0]))
RowColLess(p, q) == p[2] < q[2] \/ (p[2] = q[2] /\ p[1] < q[1])

StartCorner(edges) ==
    CHOOSE p \in {e[1] : e \in edges} :
        \A q \in {e[1] : e \in edges} : q = p \/ RowColLess(p, q)

\* the corners from which two boundary edges leave
PinchCorners(edges) ==
    {a \in {e[1] : e \in edges} : Cardinality({e \in edges : e[1] = a}) > 1}

\* a variant of AdjList: an edge is listed at both of its ends
AdjListBothEnds(edges, a, flipped) ==
    LET out == {e[2] : e \in {f \in edges : f[1] = a}}
                   \cup {e[1] : e \in {f \in edges : f[2] = a}}
    IN IF out = {} THEN <<>>
       ELSE LET lo == CHOOSE p \in out : \A q \in out : q = p \/ RowColLess(p, q)
            IN IF Cardinality(out) = 1 THEN <<lo>>
               ELSE LET hi == CHOOSE p \in out : p # lo
                    IN IF a \in flipped THEN <<hi, lo>> ELSE <<lo, hi>>

\* adj[a]: the ends of the edges that leave a, in the iteration order of the
\* edges set. No corner has more than two; flipped holds the corners whose two
\* ends come in the other order.
AdjList(edges, a, flipped) ==
    LET out == {e[2] : e \in {f \in edges : f[1] = a}}
    IN IF out = {} THEN <<>>
       ELSE LET lo == CHOOSE p \in out : \A q \in out : q = p \/ RowColLess(p, q)
            IN IF Cardinality(out) = 1 THEN <<lo>>
               ELSE LET hi == CHOOSE p \in out : p # lo
                    IN IF a \in flipped THEN <<hi, lo>> ELSE <<lo, hi>>

\* the choice of nxt: the first end that is not prev, else the first end
NextCorner(nexts, prev) ==
    LET ok == {i \in 1..Len(nexts) : <<nexts[i]>> # prev}
    IN IF ok = {} THEN nexts[1]
       ELSE nexts[CHOOSE i \in ok : \A j \in ok : i <= j]

\* a variant of max_steps: len(edges) * 4
max_steps_long(e) == Cardinality(e) * 4

\* max_steps = len(edges) * 3
max_steps(e) == Cardinality(e) * 3

\* a variant of WalkStep: the start corner is appended before the break
WalkStepRepeatsStart(edges, flipped, start, w) ==
    IF w.end # "run" THEN w
    ELSE IF w.steps >= max_steps(edges) THEN [w EXCEPT !.end = "bound"]
    ELSE LET nexts == AdjList(edges, w.cur, flipped)
         IN IF nexts = <<>> THEN [w EXCEPT !.steps = w.steps + 1, !.end = "stuck"]
            ELSE LET nxt == NextCorner(nexts, w.prev)
                 IN IF nxt = start
                    THEN [w EXCEPT !.poly = Append(w.poly, nxt),
                                   !.steps = w.steps + 1, !.end = "start"]
                    ELSE [poly |-> Append(w.poly, nxt), cur |-> nxt, prev |-> <<w.cur>>,
                          steps |-> w.steps + 1, end |-> "run"]

\* one turn of the while loop of the walk, on w = [poly, cur, prev, steps, end]:
\* prev is <<>> for None and <<corner>> otherwise; steps counts the iterations
\* begun; end is "run" while the loop goes on, then how it ended: "bound" by
\* steps reaching max_steps, "stuck" by the break on a corner with no edge
\* leaving it, "start" by the break on the return to the start corner
WalkStep(edges, flipped, start, w) ==
    IF w.end # "run" THEN w
    ELSE IF w.steps >= max_steps(edges) THEN [w EXCEPT !.end = "bound"]
    ELSE LET nexts == AdjList(edges, w.cur, flipped)
         IN IF nexts = <<>> THEN [w EXCEPT !.steps = w.steps + 1, !.end = "stuck"]
            ELSE LET nxt == NextCorner(nexts, w.prev)
                 IN IF nxt = start
                    THEN [w EXCEPT !.steps = w.steps + 1, !.end = "start"]
                    ELSE [poly |-> Append(w.poly, nxt), cur |-> nxt, prev |-> <<w.cur>>,
                          steps |-> w.steps + 1, end |-> "run"]

\* n turns of the while loop from w, by halves: the second half runs when the
\* first has not ended the loop
RECURSIVE Walk(_, _, _, _, _)
Walk(edges, flipped, start, w, n) ==
    IF n = 0 THEN w
    ELSE IF n = 1 THEN WalkStep(edges, flipped, start, w)
    ELSE CHOOSE r \in {IF half.end # "run" THEN half
                       ELSE Walk(edges, flipped, start, half, n - n \div 2) :
                           half \in {Walk(edges, flipped, start, w, n \div 2)}} : TRUE

\* the walk over a set of cells with edges, from its start corner until the
\* while loop has ended
TraceWalk(cells, flipped) ==
    LET es == BoundaryEdges(cells)
        first == StartCorner(es)
    IN Walk(es, flipped, first,
            [poly |-> <<first>>, cur |-> first, prev |-> <<>>, steps |-> 0,
             end |-> "run"],
            max_steps(es) + 1)

\* the primary branch: the boundary walk over set(loop_path)
TracePolygon(cells, flipped) ==
    IF BoundaryEdges(cells) = {} THEN <<>>
    ELSE TraceWalk(cells, flipped).poly

\* the centre of a cell in pixels
CellCentre(c) ==
    <<c[1] * grid_size + grid_size \div 2, c[2] * grid_size + grid_size \div 2>>

\* the half plane of atan2(dy, dx): angles in (-pi, 0) come before [0, pi]
AngleHalf(v) == IF v[2] < 0 THEN 0 ELSE 1

\* atan2(v) < atan2(w) for vectors from the centroid; atan2(0, 0) is 0
AngleLess(v, w) ==
    LET zv == v = <<0, 0>>
        zw == w = <<0, 0>>
        \* the angle 0: the null vector and the positive x axis
        v0 == zv \/ (v[2] = 0 /\ v[1] > 0)
        w0 == zw \/ (w[2] = 0 /\ w[1] > 0)
    IN IF AngleHalf(v) # AngleHalf(w) THEN AngleHalf(v) < AngleHalf(w)
       ELSE IF v0 \/ w0 THEN (IF AngleHalf(v) = 0 THEN w0 /\ ~v0 ELSE v0 /\ ~w0)
       ELSE v[1] * w[2] - v[2] * w[1] > 0

\* the fallback branch: the cell centres sorted by angle around their centroid;
\* the vectors are scaled by the number of points to stay in the integers
RECURSIVE SortByAngle(_, _, _)
SortByAngle(pts, sx, sy) ==
    IF pts = {} THEN <<>>
    ELSE LET first == CHOOSE p \in pts : \A q \in pts : ~AngleLess(
                     <<q[1] - sx, q[2] - sy>>, <<p[1] - sx, p[2] - sy>>)
         IN <<first>> \o SortByAngle(pts \ {first}, sx, sy)

RECURSIVE SumCoord(_, _)
SumCoord(pts, k) ==
    IF pts = {} THEN 0
    ELSE LET p == CHOOSE q \in pts : TRUE IN p[k] + SumCoord(pts \ {p}, k)

CentroidSorted(cells) ==
    LET pts == {CellCentre(c) : c \in cells}
        n == Cardinality(pts)
        scaled == {<<n * p[1], n * p[2]>> : p \in pts}
        sorted == SortByAngle(scaled, SumCoord(pts, 1), SumCoord(pts, 2))
    IN [i \in 1..Len(sorted) |-> <<sorted[i][1] \div n, sorted[i][2] \div n>>]

\* a variant of loop_polygon_pixels: loop_cells is looked at after loop_path
loop_polygon_pixels_path_first(area, cells, path, flipped) ==
    IF path # <<>> /\ Len(path) >= area
    THEN TracePolygon(Cells(path), flipped)
    ELSE IF cells = {} THEN <<>>
    ELSE CentroidSorted(cells)

\* a variant of loop_polygon_pixels: the length test is off by one
loop_polygon_pixels_short_path(area, cells, path, flipped) ==
    IF cells = {} THEN <<>>
    ELSE IF path # <<>> /\ Len(path) >= area - 1
    THEN TracePolygon(Cells(path), flipped)
    ELSE CentroidSorted(cells)

\* the body of get_loop_polygon_pixels, on an Anteater whose min_loop_area
\* attribute is area
loop_polygon_pixels(area, cells, path, flipped) ==
    IF cells = {} THEN <<>>
    ELSE IF path # <<>> /\ Len(path) >= area
    THEN TracePolygon(Cells(path), flipped)
    ELSE CentroidSorted(cells)

\* Anteater.get_loop_polygon_pixels(), with the min_loop_area __init__ sets
get_loop_polygon_pixels(cells, path, flipped) ==
    loop_polygon_pixels(min_loop_area, cells, path, flipped)

\* the crossing test of point_in_polygon for the edge from p1 to p2:
\* px < (x2 - x1) * (py - y1) / (y2 - y1 + 1e-9) + x1. With a == px - x1,
\* a variant of Crosses: the far end of the edge counts as above the ray when it
\* is level with it
CrossesLevelEnd(px, py, p1, p2) ==
    LET a == px - p1[1]
        dy == p2[2] - p1[2]
        k == a * dy - (p2[1] - p1[1]) * (py - p1[2])
    IN /\ (p1[2] > py) # (p2[2] >= py)
       /\ IF dy > 0 THEN k < 0 \/ (k = 0 /\ a < 0)
                    ELSE k > 0 \/ (k = 0 /\ a > 0)

\* dy == y2 - y1 (not 0 when the edge straddles py) and k == a * dy - (x2 - x1) *
\* (py - y1), the test is k * 1e9 + a < 0 for dy > 0 and k * 1e9 + a > 0 for
\* dy < 0; |a| is below 1e9, so the sign of k decides unless k is 0.
Crosses(px, py, p1, p2) ==
    LET a == px - p1[1]
        dy == p2[2] - p1[2]
        k == a * dy - (p2[1] - p1[1]) * (py - p1[2])
    IN /\ (p1[2] > py) # (p2[2] > py)
       /\ IF dy > 0 THEN k < 0 \/ (k = 0 /\ a < 0)
                    ELSE k > 0 \/ (k = 0 /\ a > 0)

\* a variant of point_in_polygon: a polygon of fewer than 3 points holds every
\* point
point_in_polygon_small_holds_all(x, y, polygon) ==
    LET n == Len(polygon)
    IN IF n < 3 THEN TRUE
       ELSE Cardinality({i \in 1..n :
                Crosses(x, y, polygon[i], polygon[(i % n) + 1])}) % 2 = 1

\* point_in_polygon(x, y, polygon): the parity of the crossings
point_in_polygon(x, y, polygon) ==
    LET n == Len(polygon)
    IN IF n < 3 THEN FALSE
       ELSE Cardinality({i \in 1..n :
                Crosses(x, y, polygon[i], polygon[(i % n) + 1])}) % 2 = 1

\* capture_ants_in_loop(anteater, ants): the slots of the ants inside the
\* polygon, for ants observed at the positions pos
capture_ants_in_loop(cells, path, flipped, pos) ==
    UNION {IF pts = <<>> THEN {}
           ELSE {a \in Ants : point_in_polygon(pos[a][1], pos[a][2], pts)} :
               pts \in {get_loop_polygon_pixels(cells, path, flipped)}}

\* history: no branch of update() has run, no arrow key has been read
NoOutcome == [ext |-> "off", rtr |-> "off", key |-> "none"]

\* ---- auth.py: the tables ----
\* the tables as ensure_tables() creates them, before any call
ensure_tables ==
    /\ players = {}
    /\ scores = {}
    /\ score_seq = 1
    /\ db_result = [op |-> "none", args |-> <<>>, raised |-> "none", value |-> 0]

\* ---- the state after Anteater.__init__ ----
Init ==
    /\ tongue = <<start_cell>>
    /\ direction = DOWN
    /\ next_direction = DOWN
    /\ extending = FALSE
    /\ retracting = FALSE
    /\ move_timer = 0
    /\ loop_active = FALSE
    /\ loop_cells = {}
    /\ capture_timer = 0
    /\ loop_path = <<>>
    /\ trapped_ants = {}
    /\ ants = [a \in Ants |-> FALSE]
    /\ pc = "events"
    /\ visited = <<start_cell>>
    /\ outcome = NoOutcome
    /\ ensure_tables

\* ---- actions ----
\* the history after a SPACE event: the mark of a reset lasts until the next event
AfterKey == IF outcome.ext = "reset" THEN NoOutcome ELSE outcome

\* a variant of KeySpaceDown: the retraction is not stopped
KeySpaceDownKeepsRetracting ==
    /\ pc = "events"
    /\ UNCHANGED db
    /\ extending' = TRUE
    /\ outcome' = AfterKey
    /\ UNCHANGED <<tongue, direction, next_direction, move_timer, loop_active,
                   loop_cells, capture_timer, loop_path, trapped_ants, ants, pc,
                   visited, retracting>>

\* KEYDOWN K_SPACE: start extending
KeySpaceDown ==
    /\ pc = "events"
    /\ UNCHANGED db
    /\ extending' = TRUE
    /\ retracting' = FALSE
    /\ outcome' = AfterKey
    /\ UNCHANGED <<tongue, direction, next_direction, move_timer, loop_active,
                   loop_cells, capture_timer, loop_path, trapped_ants, ants, pc,
                   visited>>

\* KEYUP K_SPACE: stop extending, start retracting
KeySpaceUp ==
    /\ pc = "events"
    /\ UNCHANGED db
    /\ extending' = FALSE
    /\ retracting' = TRUE
    /\ outcome' = AfterKey
    /\ UNCHANGED <<tongue, direction, next_direction, move_timer, loop_active,
                   loop_cells, capture_timer, loop_path, trapped_ants, ants, pc,
                   visited>>

\* a variant of reset_tongue: loop_active is not cleared
reset_tongue_keeps_loop ==
    /\ tongue' = <<start_cell>>
    /\ direction' = DOWN
    /\ next_direction' = DOWN
    /\ move_timer' = 0
    /\ UNCHANGED loop_active
    /\ loop_cells' = {}
    /\ loop_path' = <<>>
    /\ trapped_ants' = {}
    /\ capture_timer' = 0

\* a variant of reset_tongue: direction takes the buffered direction
reset_tongue_copies_direction ==
    /\ tongue' = <<start_cell>>
    /\ direction' = next_direction
    /\ next_direction' = DOWN
    /\ move_timer' = 0
    /\ loop_active' = FALSE
    /\ loop_cells' = {}
    /\ loop_path' = <<>>
    /\ trapped_ants' = {}
    /\ capture_timer' = 0

\* Anteater.reset_tongue()
reset_tongue ==
    /\ tongue' = <<start_cell>>
    /\ direction' = DOWN
    /\ next_direction' = DOWN
    /\ move_timer' = 0
    /\ loop_active' = FALSE
    /\ loop_cells' = {}
    /\ loop_path' = <<>>
    /\ trapped_ants' = {}
    /\ capture_timer' = 0

\* the state of the machine, for the history of a reset; a reset that follows
\* a reset with no event in between is recorded as "again"
Mode ==
    IF loop_active THEN "loop"
    ELSE IF extending THEN "extending"
    ELSE IF retracting THEN "retracting"
    ELSE "idle"

\* KEYDOWN K_r: reset the tongue, release the trapped ants, clear the loop
KeyR ==
    /\ pc = "events"
    /\ UNCHANGED db
    /\ reset_tongue
    /\ ants' = [a \in Ants |-> FALSE]
    /\ trapped_ants' = {}
    /\ loop_path' = <<>>
    /\ loop_cells' = {}
    /\ capture_timer' = 0
    /\ visited' = <<start_cell>>
    /\ outcome' = [ext |-> "reset",
                   rtr |-> IF outcome.ext = "reset" THEN "again" ELSE Mode,
                   key |-> "none"]
    /\ UNCHANGED <<extending, retracting, pc>>

\* the Restart button of the score overlay, clicked at the end of a frame: the
\* ants are replaced by new ones and the tongue is reset
RestartButton ==
    /\ pc = "events"
    /\ UNCHANGED db
    /\ ants' = [a \in Ants |-> FALSE]
    /\ reset_tongue
    /\ visited' = <<start_cell>>
    /\ outcome' = [ext |-> "reset",
                   rtr |-> IF outcome.ext = "reset" THEN "again" ELSE Mode,
                   key |-> "none"]
    /\ UNCHANGED <<extending, retracting, pc>>

\* the end of the event loop: anteater.handle_input(keys) with the arrow key held
HandleInput(key) ==
    /\ pc = "events"
    /\ UNCHANGED db
    /\ next_direction' = HandleInputResult(key, direction, next_direction)
    /\ pc' = "update"
    /\ outcome' = [outcome EXCEPT !.key = key]
    /\ UNCHANGED <<tongue, direction, extending, retracting, move_timer,
                   loop_active, loop_cells, capture_timer, loop_path, trapped_ants,
                   ants, visited>>

\* anteater.update()
Update ==
    LET u == UpdateResult(Self)
    IN /\ pc = "update"
       /\ UNCHANGED db
       /\ pc' = "trap"
       /\ UNCHANGED <<trapped_ants, ants>>
       /\ tongue' = u.s.tongue
       /\ direction' = u.s.direction
       /\ next_direction' = u.s.next_direction
       /\ extending' = u.s.extending
       /\ retracting' = u.s.retracting
       /\ move_timer' = u.s.move_timer
       /\ loop_active' = u.s.loop_active
       /\ loop_cells' = u.s.loop_cells
       /\ capture_timer' = u.s.capture_timer
       /\ loop_path' = u.s.loop_path
       /\ visited' = IF u.ext = "extended" THEN Append(visited, u.s.tongue[1])
                     ELSE IF u.rtr = "popped" THEN SubSeq(visited, 1, Len(visited) - 1)
                     ELSE visited
       /\ outcome' = [ext |-> u.ext, rtr |-> u.rtr, key |-> "none"]

\* a variant of TrapAnts: the loop is cleared when ants were trapped
TrapAntsInverted(points) ==
    /\ pc = "trap"
    /\ UNCHANGED db
    /\ pc' = "countdown"
    /\ IF loop_active /\ trapped_ants = {}
       THEN \E pos \in [Ants -> points] :
            \E flipped \in SUBSET PinchCorners(BoundaryEdges(Cells(loop_path))) :
            \E trapped \in {capture_ants_in_loop(loop_cells, loop_path, flipped, pos)} :
                   /\ ants' = [a \in Ants |-> ants[a] \/ a \in trapped]
                   /\ trapped_ants' = trapped
                   /\ IF trapped # {}
                      THEN /\ loop_active' = FALSE
                           /\ loop_cells' = {}
                           /\ loop_path' = <<>>
                           /\ capture_timer' = 0
                      ELSE UNCHANGED <<loop_active, loop_cells, loop_path, capture_timer>>
       ELSE UNCHANGED <<ants, trapped_ants, loop_active, loop_cells, loop_path,
                        capture_timer>>
    /\ UNCHANGED <<tongue, direction, next_direction, extending, retracting,
                   move_timer, visited, outcome>>

\* the main loop after update(): a loop has just formed, mark the ants inside as
\* trapped; with none inside, clear the loop at once
TrapAnts(points) ==
    /\ pc = "trap"
    /\ UNCHANGED db
    /\ pc' = "countdown"
    /\ IF loop_active /\ trapped_ants = {}
       THEN \E pos \in [Ants -> points] :
            \E flipped \in SUBSET PinchCorners(BoundaryEdges(Cells(loop_path))) :
            \E trapped \in {capture_ants_in_loop(loop_cells, loop_path, flipped, pos)} :
                   /\ ants' = [a \in Ants |-> ants[a] \/ a \in trapped]
                   /\ trapped_ants' = trapped
                   /\ IF trapped = {}
                      THEN /\ loop_active' = FALSE
                           /\ loop_cells' = {}
                           /\ loop_path' = <<>>
                           /\ capture_timer' = 0
                      ELSE UNCHANGED <<loop_active, loop_cells, loop_path, capture_timer>>
       ELSE UNCHANGED <<ants, trapped_ants, loop_active, loop_cells, loop_path,
                        capture_timer>>
    /\ UNCHANGED <<tongue, direction, next_direction, extending, retracting,
                   move_timer, visited, outcome>>

\* a variant of the capture countdown: the timer test is >= 0
CaptureCountdownBelowZero ==
    /\ pc = "countdown"
    /\ UNCHANGED db
    /\ pc' = "events"
    /\ IF loop_active /\ trapped_ants # {}
       THEN IF capture_timer >= 0
            THEN /\ capture_timer' = capture_timer - 1
                 /\ UNCHANGED <<ants, trapped_ants, loop_active, loop_cells>>
            ELSE /\ ants' = [a \in Ants |-> IF a \in trapped_ants THEN FALSE ELSE ants[a]]
                 /\ loop_active' = FALSE
                 /\ loop_cells' = {}
                 /\ trapped_ants' = {}
                 /\ UNCHANGED capture_timer
       ELSE UNCHANGED <<ants, trapped_ants, loop_active, loop_cells, capture_timer>>
    /\ UNCHANGED <<tongue, direction, next_direction, extending, retracting,
                   move_timer, loop_path, visited, outcome>>

\* the main loop's capture countdown: count down, then remove the trapped ants,
\* spawn new ones in their place and clear the loop
CaptureCountdown ==
    /\ pc = "countdown"
    /\ UNCHANGED db
    /\ pc' = "events"
    /\ IF loop_active /\ trapped_ants # {}
       THEN IF capture_timer > 0
            THEN /\ capture_timer' = capture_timer - 1
                 /\ UNCHANGED <<ants, trapped_ants, loop_active, loop_cells>>
            ELSE /\ ants' = [a \in Ants |-> IF a \in trapped_ants THEN FALSE ELSE ants[a]]
                 /\ loop_active' = FALSE
                 /\ loop_cells' = {}
                 /\ trapped_ants' = {}
                 /\ UNCHANGED capture_timer
       ELSE UNCHANGED <<ants, trapped_ants, loop_active, loop_cells, capture_timer>>
    /\ UNCHANGED <<tongue, direction, next_direction, extending, retracting,
                   move_timer, loop_path, visited, outcome>>

\* ---- Spec: free steering, short tongues ----
Steer == \E key \in Keys : HandleInput(key)

Tick == Update /\ Len(tongue') <= MaxLen

Next ==
    \/ KeySpaceDown
    \/ KeySpaceUp
    \/ KeyR
    \/ Steer
    \/ Tick
    \/ TrapAnts(FarPoints)
    \/ CaptureCountdown

Spec == Init /\ [][Next]_vars

\* ---- SpecRetract: frames keep coming, and no SPACE or R key is pressed while
\* the tongue retracts ----
KeySpaceDownAtRest == ~retracting /\ KeySpaceDown

KeyRAtRest == ~retracting /\ KeyR

\* the player steers down or to the left
SteerRetract == \E key \in {"none", "left", "down"} : HandleInput(key)

NextRetract ==
    \/ KeySpaceDownAtRest
    \/ KeySpaceUp
    \/ KeyRAtRest
    \/ SteerRetract
    \/ Tick
    \/ TrapAnts(FarPoints)
    \/ CaptureCountdown

\* the while loop of the game runs every section of every frame
SpecRetract ==
    /\ Init /\ [][NextRetract]_vars
    /\ WF_vars(SteerRetract) /\ WF_vars(Tick)
    /\ WF_vars(TrapAnts(FarPoints)) /\ WF_vars(CaptureCountdown)

\* ---- SpecLong: a long run to max_segments ----
LongFloor == max_segments - LongFree

\* below LongFloor cells the only key pressed is LEFT, with the head on the bottom row
SteerLong ==
    \E key \in Keys :
        /\ \/ Len(tongue) >= LongFloor
           \/ key = "none"
           \/ key = "left" /\ tongue[1][2] = max_y
        /\ HandleInput(key)

\* SPACE is released only on a tongue of at least LongFloor cells
ReleaseLong == Len(tongue) >= LongFloor /\ KeySpaceUp

\* a tongue is not retracted below LongFloor cells
TickLong == Update /\ (Len(tongue') < Len(tongue) => Len(tongue') >= LongFloor)

NextLong ==
    \/ KeySpaceDown
    \/ ReleaseLong
    \/ KeyR
    \/ SteerLong
    \/ TickLong
    \/ TrapAnts(FarPoints)
    \/ CaptureCountdown

SpecLong == Init /\ [][NextLong]_vars

\* ---- SpecCapture: a loop around an ant, and the capture countdown ----
\* the keys that trace the square loop below the spawn cell: down, left, up, right
LoopKey(len) ==
    IF len = 2 THEN "left" ELSE IF len = 3 THEN "up" ELSE IF len = 4 THEN "right"
    ELSE "none"

\* until a loop is active the player presses the keys of the square loop only
SteerCapture ==
    \E key \in Keys :
        /\ loop_active \/ key = "none" \/ key = LoopKey(Len(tongue))
        /\ HandleInput(key)

NextCapture ==
    \/ KeySpaceDown
    \/ KeySpaceUp
    \/ KeyR
    \/ SteerCapture
    \/ Tick
    \/ TrapAnts(NearPoints)
    \/ CaptureCountdown

SpecCapture == Init /\ [][NextCapture]_vars

\* ---- SpecFrames: the square loop of SpecCapture, with every section of
\* every frame run ----
\* the player steers round the square, and holds no arrow key once the loop
\* is active
SteerFrames ==
    \E key \in {"none", LoopKey(Len(tongue))} :
        /\ loop_active => key = "none"
        /\ HandleInput(key)

\* the player lets go of SPACE before the loop is formed, if at all
KeySpaceUpFrames == ~loop_active /\ KeySpaceUp

\* the player resets while a loop is active, if at all
KeyRFrames == loop_active /\ KeyR

NextFrames ==
    \/ KeySpaceDown
    \/ KeySpaceUpFrames
    \/ KeyRFrames
    \/ SteerFrames
    \/ Tick
    \/ TrapAnts(NearPoints)
    \/ CaptureCountdown

\* the while loop of the game runs every section of every frame
SpecFrames ==
    /\ Init /\ [][NextFrames]_vars
    /\ WF_vars(SteerFrames) /\ WF_vars(Tick)
    /\ WF_vars(TrapAnts(NearPoints)) /\ WF_vars(CaptureCountdown)

\* ---- SpecA: scenario A, a rectangular loop back to the spawn cell ----
\* the direction of the next step of the scenario from the head h: down the
\* spawn column for 10 cells, left for 5, up for 10, then right along the spawn row
ScenarioDir(h) ==
    IF h[1] = start_cell[1] /\ h[2] < start_cell[2] + 10 THEN DOWN
    ELSE IF h[2] = start_cell[2] + 10 /\ h[1] > start_cell[1] - 5 THEN LEFT
    ELSE IF h[1] = start_cell[1] - 5 /\ h[2] > start_cell[2] THEN UP
    ELSE RIGHT

KeyOf(d) ==
    IF d = LEFT THEN "left" ELSE IF d = RIGHT THEN "right"
    ELSE IF d = UP THEN "up" ELSE "down"

\* the player presses the key of the scenario's next step, or no key
SteerA ==
    \E key \in {"none", KeyOf(ScenarioDir(tongue[1]))} : HandleInput(key)

\* the key is pressed before the move it is for
TickA ==
    /\ (extending /\ ~loop_active) => next_direction = ScenarioDir(tongue[1])
    /\ Update

NextA ==
    \/ KeySpaceDown
    \/ SteerA
    \/ TickA
    \/ TrapAnts(FarPoints)
    \/ CaptureCountdown

SpecA == Init /\ [][NextA]_vars

\* ---- SpecRestart: the square loop of SpecCapture, with the score overlay and
\* its Restart button ----
\* the overlay shows while a loop is active, and Restart is clicked
RestartOnLoop == loop_active /\ RestartButton

NextRestart ==
    \/ KeySpaceDown
    \/ KeySpaceUpFrames
    \/ KeyRFrames
    \/ RestartOnLoop
    \/ SteerFrames
    \/ Tick
    \/ TrapAnts(NearPoints)
    \/ CaptureCountdown

SpecRestart == Init /\ [][NextRestart]_vars

\* ---- SpecPinch: a loop of twelve cells around two cells that touch at a
\* corner ----
\* the arrow key held on a tongue of each length, for the head to run down, down,
\* right, down, right, right, up, up, left, up, left and then left onto the
\* spawn cell
PinchKeys ==
    <<"none", "none", "right", "down", "right", "none", "up", "none", "left", "up",
      "left", "none">>

\* an ant rests far away, or at the centre of the first cell the loop goes round
PinchPoints == FarPoints \cup {CellCentre(<<start_cell[1] + 1, start_cell[2] + 1>>)}

\* until a loop is active the player presses the keys of the loop
SteerPinch ==
    \E key \in {IF loop_active THEN "none" ELSE PinchKeys[Len(tongue)]} :
        HandleInput(key)

\* SPACE is held while the tongue runs out
KeySpaceUpPinch == loop_active /\ KeySpaceUp

\* R is pressed on an active loop
KeyRPinch == loop_active /\ KeyR

\* the tongue is no longer than the loop
TickPinch == Update /\ Len(tongue') <= Len(PinchKeys)

NextPinch ==
    \/ KeySpaceDown
    \/ KeySpaceUpPinch
    \/ KeyRPinch
    \/ SteerPinch
    \/ TickPinch
    \/ TrapAnts(PinchPoints)
    \/ CaptureCountdown

SpecPinch == Init /\ [][NextPinch]_vars

\* ---- SpecTrace: the polygon of any set of cells ----
\* the window of cells the loop is drawn from
TraceCells == (0..(TraceSide - 1)) \X (0..2)

\* an ant rests at the centre of a cell of the window's middle row
TracePoints == {CellCentre(<<TraceSide \div 2, 1>>)}

\* the cells of a set as a list, row by row
RECURSIVE PathOf(_)
PathOf(cells) ==
    IF cells = {} THEN <<>>
    ELSE LET c == CHOOSE p \in cells : \A q \in cells : q = p \/ RowColLess(p, q)
         IN <<c>> \o PathOf(cells \ {c})

\* an Anteater whose loop fields hold any non-empty set of cells of the window,
\* as update() leaves them when it forms a loop, before the main loop looks
\* for the ants inside
InitTrace ==
    /\ tongue = <<start_cell>>
    /\ direction = DOWN
    /\ next_direction = DOWN
    /\ extending = FALSE
    /\ retracting = TRUE
    /\ move_timer = 1
    /\ loop_active = TRUE
    /\ loop_cells \in (SUBSET TraceCells) \ {{}}
    /\ loop_path = PathOf(loop_cells)
    /\ capture_timer = capture_delay_frames
    /\ trapped_ants = {}
    /\ ants = [a \in Ants |-> FALSE]
    /\ pc = "trap"
    /\ visited = <<start_cell>>
    /\ outcome = [ext |-> "loop", rtr |-> "wait", key |-> "none"]
    /\ ensure_tables

NextTrace == TrapAnts(TracePoints)

SpecTrace == InitTrace /\ [][NextTrace]_vars

\* ---- SpecAuth: the calls into auth.py ----
\* the most players that sign up, and the most score rows ever inserted
NumPlayers == 2
MaxScores == 2

\* the usernames, passwords, player ids and scores the calls are made with;
\* "" is the empty string, "zed" never signs up, and the id NumPlayers + 1 is
\* the id of no player
Usernames == {"ann", "bob", "cat"}
Passwords == {"pw"}
PlayerIds == 1..(NumPlayers + 1)
ScoreValues == {10}

\* hash_password(plain_password); the salt bcrypt draws is left out
hash_password(plain_password) == <<"bcrypt", plain_password>>

\* signup(username, password): INSERT INTO players; username is UNIQUE
signup(username, password) ==
    /\ IF username = "" \/ password = ""
       THEN /\ db_result' = [op |-> "signup", args |-> <<username>>,
                             raised |-> "ValueError", value |-> 0]
            /\ UNCHANGED players
       ELSE IF \E p \in players : p.username = username
       THEN /\ db_result' = [op |-> "signup", args |-> <<username>>,
                             raised |-> "ValueError", value |-> 0]
            /\ UNCHANGED players
       ELSE LET lastrowid == Cardinality(players) + 1
            IN /\ lastrowid <= NumPlayers
               /\ players' = players \cup
                      {[player_id |-> lastrowid, username |-> username,
                        password_hash |-> hash_password(password), is_admin |-> FALSE]}
               /\ db_result' = [op |-> "signup", args |-> <<username>>,
                                raised |-> "none", value |-> lastrowid]
    /\ UNCHANGED <<scores, score_seq, game>>

\* make_admin(username): UPDATE players SET is_admin = TRUE; rowcount 0 raises
\* ValueError. For a player who is an admin already the row does not change,
\* and rowcount is 0 or 1 with the connection's found-rows flag.
make_admin(username) ==
    LET rows == {p \in players : p.username = username}
    IN /\ players' = (players \ rows) \cup {[p EXCEPT !.is_admin = TRUE] : p \in rows}
       /\ \E rowcount \in {Cardinality({p \in rows : ~p.is_admin}), Cardinality(rows)} :
              db_result' = [op |-> "make_admin", args |-> <<username>>,
                            raised |-> IF rowcount = 0 THEN "ValueError" ELSE "none",
                            value |-> 0]
       /\ UNCHANGED <<scores, score_seq, game>>

\* add_score(player_id, score, level): INSERT INTO scores; player_id is a
\* FOREIGN KEY, and the insert of a row for no player raises IntegrityError
\* (the counter may have advanced all the same)
add_score(player_id, score, level) ==
    /\ score_seq <= MaxScores
    /\ IF \E p \in players : p.player_id = player_id
       THEN /\ scores' = scores \cup {[score_id |-> score_seq, player_id |-> player_id,
                                        score |-> score, level |-> level]}
            /\ score_seq' = score_seq + 1
            /\ db_result' = [op |-> "add_score", args |-> <<player_id, score>>,
                             raised |-> "none", value |-> 0]
       ELSE /\ UNCHANGED scores
            /\ score_seq' \in {score_seq, score_seq + 1}
            /\ db_result' = [op |-> "add_score", args |-> <<player_id, score>>,
                             raised |-> "IntegrityError", value |-> 0]
    /\ UNCHANGED <<players, game>>

\* a variant of is_admin: every player that exists is an admin
is_admin_any_player(rows, player_id) ==
    \E p \in rows : p.player_id = player_id

\* is_admin(player_id): SELECT is_admin FROM players WHERE player_id = %s
is_admin(rows, player_id) ==
    \E p \in rows : p.player_id = player_id /\ p.is_admin

\* the rows DELETE s FROM scores s JOIN players p ON s.player_id = p.player_id
\* WHERE p.username = %s matches
scores_of(rows, srows, username) ==
    {r \in srows : \E p \in rows : p.player_id = r.player_id /\ p.username = username}

\* delete_user_scores(admin_id, target_username)
delete_user_scores(admin_id, target_username) ==
    /\ IF ~is_admin(players, admin_id)
       THEN /\ db_result' = [op |-> "delete_user_scores",
                             args |-> <<admin_id, target_username>>,
                             raised |-> "ValueError", value |-> 0]
            /\ UNCHANGED scores
       ELSE LET deleted == scores_of(players, scores, target_username)
            IN /\ scores' = scores \ deleted
               /\ db_result' = [op |-> "delete_user_scores",
                                args |-> <<admin_id, target_username>>,
                                raised |-> "none", value |-> Cardinality(deleted)]
    /\ UNCHANGED <<players, score_seq, game>>

Signup == \E username \in Usernames \cup {""}, password \in Passwords \cup {""} :
              signup(username, password)

MakeAdmin == \E username \in Usernames \cup {"zed"} : make_admin(username)

AddScore == \E player_id \in PlayerIds, score \in ScoreValues : add_score(player_id, score, 1)

DeleteUserScores ==
    \E admin_id \in PlayerIds, target_username \in Usernames \cup {"zed"} :
        delete_user_scores(admin_id, target_username)

NextAuth ==
    \/ Signup
    \/ MakeAdmin
    \/ AddScore
    \/ DeleteUserScores

SpecAuth == Init /\ [][NextAuth]_vars

\* ======================= the claims =======================
\* the grid, written out from WIDTH, HEIGHT and grid_size
InsideGrid(c) ==
    /\ 0 <= c[1] /\ c[1] <= WIDTH \div grid_size - 1
    /\ 0 <= c[2] /\ c[2] <= HEIGHT \div grid_size - 1

Opposite(d) == <<-d[1], -d[2]>>

\* the cell a move tick tries to enter from the state before the tick
Candidate == <<tongue[1][1] + next_direction[1], tongue[1][2] + next_direction[2]>>

\* an update() that is a move tick of the extending branch
MoveTick ==
    /\ pc = "update" /\ pc' = "trap"
    /\ extending /\ ~loop_active
    /\ move_timer + 1 >= move_cooldown

\* C1: in every reachable state the tongue contains no two equal grid cells.
C1_NoDuplicateCells ==
    \A i, j \in 1..Len(tongue) : i # j => tongue[i] # tongue[j]

\* C1 witness: a move tick has just found the candidate head on the tongue, and
\* the tongue of four or more cells was left without it
C1_Witness ==
    /\ pc = "trap" /\ outcome.ext = "loop"
    /\ Len(tongue) >= 4
    /\ <<tongue[1][1] + direction[1], tongue[1][2] + direction[2]>> \in Cells(tongue)

\* C2: in every reachable state the tongue is non-empty and its last cell is the
\* spawn cell; a retraction step on a one-cell tongue removes nothing.
C2_TailIsSpawn ==
    /\ Len(tongue) >= 1
    /\ tongue[Len(tongue)] = start_cell

\* C2 witness: a retraction step has just run on the one-cell tongue
C2_Witness ==
    /\ pc = "trap" /\ outcome.rtr = "idle"
    /\ tongue = <<start_cell>>
    /\ ~retracting

\* C3: in every reachable state len(tongue) <= max_segments; an extension
\* attempt on a tongue of max_segments cells adds no cell.
C3_MaxSegments == Len(tongue) <= max_segments

\* C3 witness: a move tick has just been refused on a tongue of max_segments cells
C3_Witness ==
    /\ pc = "trap" /\ outcome.ext = "max"
    /\ Len(tongue) = max_segments

\* C4: in every reachable state every tongue cell lies inside the grid, and a
\* move tick whose candidate head is outside the grid reports no loop.
C4_InsideGrid ==
    /\ \A i \in 1..Len(tongue) : InsideGrid(tongue[i])
    /\ (pc = "trap" /\ outcome.ext = "oob") => ~loop_active

\* C4 witness: a move tick has just rejected a candidate head below the grid
C4_Witness ==
    /\ pc = "trap" /\ outcome.ext = "oob"
    /\ ~InsideGrid(<<tongue[1][1] + direction[1], tongue[1][2] + direction[2]>>)

\* C5: a move tick that finds the candidate head out of bounds, or the tongue
\* at max_segments, goes to Retracting, leaves the tongue's cells unchanged and
\* creates no loop state.
C5_RejectedMoveRetracts ==
    [][(/\ MoveTick
        /\ \/ ~InsideGrid(Candidate)
           \/ Candidate \notin Cells(tongue) /\ Len(tongue) >= max_segments)
       => (/\ extending' = FALSE
           /\ retracting' = TRUE
           /\ tongue' = tongue
           /\ loop_active' = FALSE
           /\ UNCHANGED <<loop_path, loop_cells, capture_timer, trapped_ants>>)]_vars

\* C5 witness: the tick after which the machine retracts from max_segments cells
C5_Witness ==
    /\ pc = "trap" /\ outcome.ext \in {"oob", "max"}
    /\ retracting /\ ~extending
    /\ Len(tongue) >= max_segments - 1

\* C6: the direction applied on a move tick is never the exact opposite of the
\* direction that was current before that tick.
C6_NoReversal ==
    [][MoveTick => (direction' # Opposite(direction) /\ direction' = next_direction)]_vars

\* C6 witness: a move tick has just applied a turn
C6_Witness ==
    /\ pc = "trap" /\ outcome.ext = "extended"
    /\ Len(tongue) >= 3
    /\ direction # <<tongue[2][1] - tongue[3][1], tongue[2][2] - tongue[3][2]>>

\* C7: when a move tick's candidate head is already in the tongue at head-first
\* index i, loop_path is exactly tongue[0..i], ending with the revisited cell,
\* loop_cells is exactly the set of cells of loop_path, and i is the smallest
\* index at which the cell occurs.
C7_LoopIsPrefix ==
    (pc = "trap" /\ outcome.ext = "loop") =>
        LET n == Len(loop_path)
            hit == <<tongue[1][1] + direction[1], tongue[1][2] + direction[2]>>
        IN /\ 1 <= n /\ n <= Len(tongue)
           /\ loop_path = SubSeq(tongue, 1, n)
           /\ tongue[n] = hit
           /\ \A j \in 1..(n - 1) : tongue[j] # hit
           /\ loop_cells = {loop_path[k] : k \in 1..n}
           /\ loop_active

\* C7 witness: a loop of four cells has just formed on a tongue of five
C7_Witness ==
    /\ pc = "trap" /\ outcome.ext = "loop"
    /\ Len(loop_path) = 4
    /\ Len(tongue) = 5

\* C8: the tongue lists the cells entered in exactly reverse-chronological
\* order with the spawn cell last, one cell per successful extension plus one.
C8_ReverseChronological ==
    /\ Len(tongue) = Len(visited)
    /\ visited[1] = start_cell
    /\ \A i \in 1..Len(tongue) : tongue[i] = visited[Len(visited) + 1 - i]

\* C8 witness: the third or a later extension in a row has just succeeded
C8_Witness ==
    /\ pc = "trap" /\ outcome.ext = "extended"
    /\ Len(visited) >= 4

\* the border ring of the rectangle of cells spanned by scenario A: columns
\* 15 to 20, rows 5 to 15
ScenarioRing ==
    {c \in (15..20) \X (5..15) : c[1] \in {15, 20} \/ c[2] \in {5, 15}}

\* a rectangle of w by h cells
IsRectangle(cells, w, h) ==
    \E x0 \in 0..(WIDTH \div grid_size), y0 \in 0..(HEIGHT \div grid_size) :
        cells = (x0..(x0 + w - 1)) \X (y0..(y0 + h - 1))

\* C9 (as amended): in scenario A the 5th rightward step revisits the spawn
\* cell at head-first index 29, the last of the 30 tongue cells; loop_path is
\* the whole tongue and loop_cells is the 30-cell border ring of the rectangle
\* of 6 by 11 cells, not a filled rectangle.
C9_ScenarioRing ==
    (pc = "trap" /\ outcome.ext = "loop") =>
        /\ max_x + 1 = 40 /\ max_y + 1 = 30
        /\ Len(tongue) = 30
        /\ tongue[1] = <<19, 5>>
        /\ direction = RIGHT
        /\ tongue[30] = <<20, 5>>
        /\ loop_path = tongue
        /\ loop_cells = ScenarioRing
        /\ Cardinality(loop_cells) = 30

\* C9 witness: the loop of scenario A has just formed
C9_Witness ==
    /\ pc = "trap" /\ outcome.ext = "loop"
    /\ loop_active
    /\ Len(loop_path) = 30

\* C9 (original): in scenario A the self-intersection is reported at the index
\* of the revisited cell and loop_cells forms a 5 by 10 rectangle of 50 cells.
C9_Original ==
    (pc = "trap" /\ outcome.ext = "loop") =>
        /\ loop_path = SubSeq(tongue, 1, Len(loop_path))
        /\ Cardinality(loop_cells) = 50
        /\ (IsRectangle(loop_cells, 5, 10) \/ IsRectangle(loop_cells, 10, 5))

\* a step of the event loop that records a reset
ResetStep == pc = "events" /\ pc' = "events" /\ outcome'.ext = "reset" /\ outcome' # outcome

\* what a reset discards
ResetDiscards ==
    /\ tongue' = <<start_cell>>
    /\ direction' = DOWN /\ next_direction' = DOWN
    /\ loop_active' = FALSE
    /\ loop_path' = <<>> /\ loop_cells' = {}
    /\ trapped_ants' = {}
    /\ capture_timer' = 0

\* C10 (as amended): from any state an external reset leaves the tongue equal
\* to the single spawn cell, direction and next_direction default, and all
\* loop and capture state discarded; the flags extending and retracting keep
\* the values they had, so the machine is Idle only if it was neither
\* extending nor retracting.
C10_ResetKeepsFlags ==
    [][ResetStep
       => (/\ ResetDiscards
           /\ extending' = extending
           /\ retracting' = retracting)]_vars

\* C10 witness: a reset has just discarded an active loop with a trapped ant,
\* and the machine is still retracting
C10_Witness ==
    /\ outcome.ext = "reset" /\ outcome.rtr = "loop"
    /\ pc = "events"
    /\ tongue = <<start_cell>>
    /\ ~loop_active /\ trapped_ants = {}
    /\ retracting

\* C10 (original): from any state an external reset leaves the machine in
\* Idle: not extending, not retracting, and everything else discarded.
C10_Original ==
    [][ResetStep => (ResetDiscards /\ ~extending' /\ ~retracting')]_vars

\* C11: reset is idempotent: a reset applied right after a reset, with nothing
\* in between, leaves every field of the Anteater as the first reset left it.
C11_ResetIdempotent ==
    [][(ResetStep /\ outcome.ext = "reset") => anteater' = anteater]_vars

\* C11 witness: a second reset has just followed a reset, with SPACE still held
C11_Witness ==
    /\ pc = "events"
    /\ outcome.ext = "reset" /\ outcome.rtr = "again"
    /\ extending
    /\ tongue = <<start_cell>>
    /\ direction = DOWN /\ next_direction = DOWN

\* an update() that runs with a loop active before or after it
LoopTick == pc = "update" /\ pc' = "trap" /\ (loop_active \/ loop_active')

\* C12 (as amended): while a loop is active the tongue is never extended and
\* loop_path does not change, but the tongue is not frozen: the retraction
\* that the self-intersection tick starts removes the head cell of the tongue
\* on every move tick, and any other tick leaves the tongue unchanged.
C12_LoopTongueOnlyRetracts ==
    [][LoopTick
       => (/\ \/ tongue' = tongue
              \/ retracting /\ Len(tongue) > 1 /\ tongue' = Tail(tongue)
           /\ loop_active => loop_path' = loop_path)]_vars

\* C12 witness: with the loop still active and an ant trapped, a tick has just
\* retracted the tongue to fewer cells than the loop has
C12_Witness ==
    /\ pc = "trap" /\ outcome.rtr = "popped"
    /\ loop_active /\ trapped_ants # {}
    /\ Len(tongue) < Len(loop_path)

\* C12 (original): while a loop is active the tongue's cell sequence does not
\* change on any tick.
C12_Original == [][LoopTick => tongue' = tongue]_vars

\* the capture-countdown section of a frame, run with a loop active
CountdownStep == pc = "countdown" /\ pc' = "events" /\ loop_active

\* C13: the tick that detects a self-intersection sets capture_timer to
\* capture_delay_frames; while the loop stays active the countdown goes down
\* by exactly one in each frame's countdown section and is changed nowhere
\* else, it never goes below 0, and the capture (the trapped ants removed, the
\* loop cleared) happens only in a countdown section that finds it at 0.
C13_Countdown ==
    [][/\ (pc = "update" /\ ~loop_active /\ loop_active')
          => capture_timer' = capture_delay_frames
       /\ (loop_active /\ loop_active')
          => capture_timer' = IF pc = "countdown" THEN capture_timer - 1
                                                  ELSE capture_timer
       /\ capture_timer >= 0 /\ capture_timer' >= 0
       /\ (CountdownStep /\ ~loop_active')
          => (/\ capture_timer = 0
              /\ trapped_ants # {} /\ trapped_ants' = {}
              /\ \A a \in trapped_ants : ants[a] /\ ~ants'[a])]_vars

\* C13 witness: a capture has just been performed at the end of a countdown
C13_Witness ==
    /\ pc = "events"
    /\ ~loop_active /\ loop_path # <<>> /\ loop_cells = {}
    /\ capture_timer = 0 /\ trapped_ants = {}
    /\ outcome.ext # "reset"

\* a step that ends LoopActive
LoopEnds == loop_active /\ ~loop_active'

\* the countdown section performs the capture
CaptureStep == CountdownStep /\ capture_timer = 0 /\ trapped_ants # {}

\* the frame that formed the loop finds no ant inside it and clears it at once
EmptyLoopStep ==
    /\ pc = "trap" /\ pc' = "countdown"
    /\ outcome.ext = "loop"
    /\ trapped_ants = {} /\ trapped_ants' = {}
    /\ loop_cells' = {} /\ loop_path' = <<>> /\ capture_timer' = 0

\* C14 (as amended): once a self-intersection has made loop_active true, it
\* becomes false again only when the capture countdown has reached zero (the
\* capture), when an external reset occurs, or, in the very frame that formed
\* the loop, when no ant is inside the traced region: the loop is then cleared
\* at once, with the countdown still at capture_delay_frames and no capture.
C14_LoopEnds ==
    [][LoopEnds => (CaptureStep \/ ResetStep \/ EmptyLoopStep)]_vars

\* C14 witness: the frame that formed a loop has just cleared it, no ant being
\* inside
C14_Witness ==
    /\ pc = "countdown" /\ outcome.ext = "loop"
    /\ ~loop_active /\ loop_path = <<>> /\ capture_timer = 0
    /\ \A a \in Ants : ~ants[a]

\* C14 (original): loop_active becomes false again only when the capture
\* countdown has reached zero or when an external reset occurs.
C14_Original ==
    [][LoopEnds => ((CountdownStep /\ capture_timer = 0) \/ ResetStep)]_vars

\* C15: when a capture completes (the countdown expired and the trapped ants
\* removed) the whole loop result is cleared: loop_path and loop_cells are both
\* empty afterwards, and stay empty until the next self-intersection.
C15_CaptureClearsLoop ==
    [][/\ CaptureStep => (loop_path' = <<>> /\ loop_cells' = {})
       /\ (~loop_active /\ ~loop_active' /\ loop_path = <<>> /\ loop_cells = {})
          => (loop_path' = <<>> /\ loop_cells' = {})]_vars

\* C16: from the tick that produces a loop until the loop is cleared or reset,
\* loop_path and loop_cells keep the value they received at formation, whatever
\* keys and ticks come in between: no retraction alters them and no update()
\* forms a second loop.
C16_LoopResultFrozen ==
    [][/\ (loop_active /\ loop_active')
          => (loop_path' = loop_path /\ loop_cells' = loop_cells)
       /\ (pc = "update" /\ loop_active) => outcome'.ext = "off"]_vars

\* C16 witness: with the loop of four cells active, the tongue has retracted
\* below it and SPACE has been pressed again; the loop result is as formed
C16_Witness ==
    /\ pc = "trap" /\ loop_active
    /\ extending
    /\ Len(tongue) < 4
    /\ Len(loop_path) = 4 /\ loop_cells = Cells(loop_path)

\* an update() whose retract half runs a move tick: the machine is retracting,
\* the extending half does not run, and move_timer reaches move_cooldown
RetractTick ==
    /\ pc = "update" /\ pc' = "trap"
    /\ retracting /\ ~(extending /\ ~loop_active)
    /\ move_timer + 1 >= move_cooldown

\* C17: a retraction step on a tongue of more than one cell removes exactly
\* the head cell, leaves the other cells and their order unchanged and stays
\* Retracting; a retraction step on a tongue of one cell leaves the tongue
\* unchanged, ends Retracting and sets direction and next_direction to (0,1).
C17_RetractionStep ==
    [][RetractTick
       => IF Len(tongue) > 1
          THEN /\ Len(tongue') = Len(tongue) - 1
               /\ \A i \in 1..Len(tongue') : tongue'[i] = tongue[i + 1]
               /\ retracting'
          ELSE /\ tongue' = tongue
               /\ ~retracting'
               /\ direction' = <<0, 1>> /\ next_direction' = <<0, 1>>]_vars

\* C17 witness: a retraction step has just removed the head of a tongue that
\* had turned, and two or more cells remain
C17_Witness ==
    /\ pc = "trap" /\ outcome.rtr = "popped"
    /\ retracting /\ ~loop_active
    /\ Len(tongue) >= 2
    /\ direction # DOWN

\* an update() whose extending half runs
ExtendingTick == pc = "update" /\ pc' = "trap" /\ extending /\ ~loop_active

\* the candidate head is free: inside the grid, not on the tongue, and the
\* tongue is under max length
CandidateFree ==
    /\ InsideGrid(Candidate)
    /\ Candidate \notin Cells(tongue)
    /\ Len(tongue) < max_segments

\* C18: while the machine is Extending with no collision and under max length,
\* an update() either only counts (move_timer goes up by one, below
\* move_cooldown, and the tongue is unchanged) or, on the tick move_timer
\* reaches move_cooldown, puts old head + direction in front of the tongue and
\* restarts the count at 0: one cell every move_cooldown ticks; no step adds
\* more than one cell.
C18_OneCellPerCooldown ==
    [][/\ ExtendingTick
          => IF move_timer + 1 < move_cooldown
             THEN tongue' = tongue /\ move_timer' = move_timer + 1
             ELSE CandidateFree
                  => (/\ direction' = next_direction
                      /\ tongue' = <<<<tongue[1][1] + direction'[1],
                                       tongue[1][2] + direction'[2]>>>> \o tongue
                      /\ move_timer' = 0
                      /\ extending')
       /\ Len(tongue') <= Len(tongue) + 1
       /\ move_timer \in 0..(move_cooldown - 1)]_vars

\* C18 witness: the tick that completes a count of move_cooldown has just
\* advanced the head of a tongue, which now has four or more cells
C18_Witness ==
    /\ pc = "trap" /\ outcome.ext = "extended"
    /\ extending /\ move_timer = 0
    /\ Len(tongue) >= 4
    /\ tongue[1] = <<tongue[2][1] + direction[1], tongue[2][2] + direction[2]>>

\* the end of the event loop: handle_input() reads the arrow keys
HandleStep == pc = "events" /\ pc' = "update"

\* the direction an arrow key asks for
KeyDir(key) ==
    IF key = "left" THEN <<-1, 0>> ELSE IF key = "right" THEN <<1, 0>>
    ELSE IF key = "up" THEN <<0, -1>> ELSE IF key = "down" THEN <<0, 1>>
    ELSE <<0, 0>>

\* C19: direction input is buffered: handle_input changes no field of the
\* Anteater but next_direction, which stays or becomes the direction asked for;
\* a key asking for the exact reversal of the current direction leaves
\* next_direction unchanged; and direction changes only on a move tick, where
\* it takes the value of next_direction, or when a reset or a full retraction
\* puts direction and next_direction back to the default.
C19_BufferedDirection ==
    [][/\ HandleStep
          => (/\ UNCHANGED <<tongue, direction, extending, retracting, move_timer,
                             loop_active, loop_cells, capture_timer, loop_path,
                             trapped_ants>>
              /\ next_direction' \in {next_direction, KeyDir(outcome'.key)}
              /\ KeyDir(outcome'.key) = Opposite(direction)
                 => next_direction' = next_direction)
       /\ direction' # direction
          => \/ MoveTick /\ direction' = next_direction
             \/ /\ direction' = <<0, 1>> /\ next_direction' = <<0, 1>>
                /\ ResetStep \/ (RetractTick /\ Len(tongue) = 1)]_vars

\* C19 witness: with the tongue heading left and an up turn buffered,
\* handle_input has just read the right key and left next_direction as it was
C19_Witness ==
    /\ pc = "update" /\ outcome.key = "right"
    /\ direction = LEFT
    /\ next_direction = UP

\* C20: for every non-empty set of cells, disconnected sets and sets with a
\* pinch corner included, and every iteration order of the edges, the boundary
\* walk ends by returning to the start corner or by reaching 3 x |edges|
\* iterations, never on a corner without a way on, and the polygon it returns
\* has at most 3 x |edges| + 1 points.
C20_WalkBounded ==
    loop_cells # {} =>
        LET n == Cardinality(BoundaryEdges(loop_cells))
        IN \A flipped \in SUBSET PinchCorners(BoundaryEdges(loop_cells)) :
               LET w == TraceWalk(loop_cells, flipped)
               IN /\ w.end \in {"start", "bound"}
                  /\ w.steps <= 3 * n
                  /\ w.end = "bound" => w.steps = 3 * n
                  /\ Len(w.poly) <= 3 * n + 1
                  /\ Len(w.poly) <= w.steps + 1

\* C20 witness: the walk over a trapping loop with a pinch corner ends at the
\* start corner for one order of the edges, and only by the bound for another
C20_Witness ==
    /\ pc = "countdown" /\ loop_active /\ trapped_ants # {}
    /\ \E f, g \in SUBSET PinchCorners(BoundaryEdges(loop_cells)) :
           /\ TraceWalk(loop_cells, f).end = "start"
           /\ TraceWalk(loop_cells, g).end = "bound"
           /\ Len(TraceWalk(loop_cells, g).poly) > Cardinality(BoundaryEdges(loop_cells))

\* the block of 3 by 3 cells in the corner of the grid
Block3 == (0..2) \X (0..2)

\* the polygon get_loop_polygon_pixels returns for the loop, for every order of
\* the edges
LoopPolygons ==
    {get_loop_polygon_pixels(loop_cells, loop_path, flipped) :
        flipped \in SUBSET PinchCorners(BoundaryEdges(Cells(loop_path)))}

\* C21 (as amended): the block of 3 by 3 cells traces to the outer perimeter
\* of the block as a polygon of 12 points, one for every grid corner on the
\* perimeter: the walk adds a point per unit edge and does not merge the
\* collinear ones.
C21_BlockPerimeter ==
    loop_cells = Block3 =>
        LoopPolygons =
            {<< <<0, 0>>, <<20, 0>>, <<40, 0>>, <<60, 0>>, <<60, 20>>, <<60, 40>>,
                <<60, 60>>, <<40, 60>>, <<20, 60>>, <<0, 60>>, <<0, 40>>, <<0, 20>> >>}

\* C21 witness: the block has trapped the ant in its middle cell
C21_Witness ==
    /\ pc = "countdown" /\ loop_active
    /\ loop_cells = Block3
    /\ trapped_ants # {}

\* C21 (original): the block of 3 by 3 cells traces to a polygon of 8 points on
\* the outer perimeter of the block.
C21_Original ==
    loop_cells = Block3 =>
        \A poly \in LoopPolygons :
            /\ Len(poly) = 8
            /\ \A i \in 1..Len(poly) :
                   /\ poly[i][1] \in 0..60 /\ poly[i][2] \in 0..60
                   /\ poly[i][1] \in {0, 60} \/ poly[i][2] \in {0, 60}

\* C22: on an Anteater with min_loop_area 1 or less, a loop of a single cell
\* is traced by the boundary walk to exactly 4 points, the four corners of that
\* cell, each once: the start corner is not repeated at the end.
C22_SingleCellCorners ==
    \A c \in loop_cells :
        (loop_cells = {c} /\ loop_path = <<c>>) =>
            \A area \in 0..1 :
                LET poly == loop_polygon_pixels(area, loop_cells, loop_path, {})
                    x0 == c[1] * grid_size
                    y0 == c[2] * grid_size
                IN /\ Len(poly) = 4
                   /\ poly = << <<x0, y0>>, <<x0 + grid_size, y0>>,
                                <<x0 + grid_size, y0 + grid_size>>,
                                <<x0, y0 + grid_size>> >>
                   /\ poly[Len(poly)] # poly[1]
                   /\ TraceWalk(loop_cells, {}).end = "start"

\* C22 witness: the loop is a single cell away from the corner of the grid, and
\* the walk over it has come back to its start corner after four iterations
C22_Witness ==
    /\ loop_active
    /\ loop_cells = {<<1, 2>>} /\ loop_path = <<<<1, 2>>>>
    /\ TraceWalk(loop_cells, {}).steps = 4
    /\ TraceWalk(loop_cells, {}).end = "start"
    /\ Len(loop_polygon_pixels(1, loop_cells, loop_path, {})) = 4

\* C23: with min_loop_area = 2, a loop of a single cell is traced by the
\* fallback branch, not by the boundary walk: the result has exactly 1 point,
\* the centre of that cell.
C23_SingleCellFallback ==
    \A c \in loop_cells :
        (loop_cells = {c} /\ loop_path = <<c>>) =>
            /\ min_loop_area = 2
            /\ LoopPolygons =
                   {<< <<c[1] * grid_size + grid_size \div 2,
                         c[2] * grid_size + grid_size \div 2>> >>}
            /\ \A poly \in LoopPolygons :
                   Len(poly) = 1 /\ poly # TracePolygon(loop_cells, {})

\* C23 witness: the loop is the single cell the ant rests in, and its polygon
\* is the one point where the ant is
C23_Witness ==
    /\ pc = "trap" /\ loop_active
    /\ loop_cells = {<<1, 1>>} /\ loop_path = <<<<1, 1>>>>
    /\ get_loop_polygon_pixels(loop_cells, loop_path, {}) = <<<<30, 30>>>>

\* the query points: the grid corners, the middles of the cell sides and the
\* cell centres of the traced window
QueryPoints ==
    {<<i * (grid_size \div 2), j * (grid_size \div 2)>> : i \in 0..(2 * TraceSide), j \in 0..6}

\* the leading parts, of up to 2 points, of the polygon of the loop in this
\* state and of its boundary walk
SmallPolygons ==
    UNION {{SubSeq(poly, 1, n) : n \in {m \in 0..2 : m <= Len(poly)}} :
              poly \in {get_loop_polygon_pixels(loop_cells, loop_path, {}),
                        TracePolygon(loop_cells, {})}}

\* C24: point_in_polygon returns False for every query point whenever the
\* polygon has fewer than 3 points (0, 1 or 2 points), so nothing is captured
\* by such a polygon.
C24_SmallPolygonHoldsNothing ==
    loop_cells # {} =>
        /\ \A poly \in SmallPolygons : \A q \in QueryPoints :
               Len(poly) < 3 => ~point_in_polygon(q[1], q[2], poly)
        /\ Len(get_loop_polygon_pixels(loop_cells, loop_path, {})) < 3 =>
               \A pos \in [Ants -> QueryPoints] :
                   capture_ants_in_loop(loop_cells, loop_path, {}, pos) = {}

\* C24 witness: the ant is inside the polygon of the loop and not inside the
\* first two points of it
C24_Witness ==
    /\ pc = "trap" /\ loop_active
    /\ loop_cells = {<<1, 0>>, <<1, 1>>}
    /\ point_in_polygon(30, 30, TracePolygon(loop_cells, {}))
    /\ <<30, 30>> \in QueryPoints
    /\ \E poly \in SmallPolygons :
           Len(poly) = 2 /\ ~point_in_polygon(30, 30, poly)

\* the points of a polygon in the opposite order
Reversed(polygon) ==
    [i \in 1..Len(polygon) |-> polygon[Len(polygon) + 1 - i]]

\* every side of the polygon, the closing one included, is parallel to an axis
AxisAligned(polygon) ==
    \A i \in 1..Len(polygon) :
        LET p1 == polygon[i]
            p2 == polygon[(i % Len(polygon)) + 1]
        IN p1[1] = p2[1] \/ p1[2] = p2[2]

\* C25: for every polygon the boundary walk produces for the loop the trap
\* section is about to test, with sides parallel to the axes, and every integer
\* query point, point_in_polygon gives the same answer for the polygon and for the
\* polygon with its point order reversed.
C25_ReversalInvariant ==
    (pc = "trap" /\ loop_cells # {}) =>
        \A poly \in {TracePolygon(loop_cells, flipped) :
                         flipped \in SUBSET PinchCorners(BoundaryEdges(loop_cells))} :
            AxisAligned(poly) =>
                \A rev \in {Reversed(poly)} : \A q \in QueryPoints :
                    point_in_polygon(q[1], q[2], poly) = point_in_polygon(q[1], q[2], rev)

\* C25 witness: the ant is inside the polygon of two cells in either point
\* order, and a corner of the window is outside in either order
C25_Witness ==
    /\ pc = "trap" /\ loop_active
    /\ loop_cells = {<<1, 1>>, <<1, 2>>}
    /\ LET poly == TracePolygon(loop_cells, {})
       IN /\ AxisAligned(poly) /\ Len(poly) = 6
          /\ Reversed(poly) # poly
          /\ {<<30, 30>>, <<0, 0>>, <<20, 40>>} \subseteq QueryPoints
          /\ point_in_polygon(30, 30, poly) /\ point_in_polygon(30, 30, Reversed(poly))
          /\ ~point_in_polygon(0, 0, poly) /\ ~point_in_polygon(0, 0, Reversed(poly))
          /\ point_in_polygon(20, 40, poly) = point_in_polygon(20, 40, Reversed(poly))

\* C26: when no loop is there (loop_cells empty), and so the polygon is empty,
\* the capture test reports no ant as captured wherever the ants are, and the
\* trap section of the frame changes neither the Anteater nor any ant.
C26_NoLoopNothingCaptured ==
    [][(pc = "trap" /\ loop_cells = {}) =>
          /\ \A flipped \in SUBSET PinchCorners(BoundaryEdges(Cells(loop_path))) :
                 /\ get_loop_polygon_pixels(loop_cells, loop_path, flipped) = <<>>
                 /\ \A pos \in [Ants -> NearPoints] :
                        capture_ants_in_loop(loop_cells, loop_path, flipped, pos) = {}
          /\ anteater' = anteater
          /\ ants' = ants]_vars

\* C26 witness: the trap section has run with loop_cells empty and the path
\* of the loop captured earlier still in loop_path, a path whose region holds
\* the place of the ant
C26_Witness ==
    /\ pc = "countdown" /\ ~loop_active
    /\ loop_cells = {} /\ Len(loop_path) >= 4
    /\ trapped_ants = {} /\ \A a \in Ants : ~ants[a]
    /\ \E q \in NearPoints :
           point_in_polygon(q[1], q[2], TracePolygon(Cells(loop_path), {}))

\* a call of delete_user_scores has returned or raised
DeleteCall == db_result'.op = "delete_user_scores"

\* C27: delete_user_scores(admin_id, target) called with an admin_id that is
\* not an admin, or is the id of no player, raises ValueError and deletes no
\* score row; called by an admin it deletes exactly the score rows of the
\* player named target, leaves every other player's scores as they were, and
\* returns the number of rows deleted.
C27_DeleteUserScores ==
    [][DeleteCall =>
          LET admin_id == db_result'.args[1]
              target == db_result'.args[2]
              admin == \E p \in players : p.player_id = admin_id /\ p.is_admin
              theirs == {r \in scores : \E p \in players :
                            p.username = target /\ p.player_id = r.player_id}
          IN /\ players' = players
             /\ ~admin => (db_result'.raised = "ValueError" /\ scores' = scores)
             /\ admin => /\ db_result'.raised = "none"
                         /\ scores' = scores \ theirs
                         /\ \A r \in scores \ theirs : r \in scores'
                         /\ db_result'.value = Cardinality(scores) - Cardinality(scores')
                         /\ db_result'.value = Cardinality(theirs)]_vars

\* C27 witness: an admin has deleted the score row of another player, and a
\* score row of the admin is left
C27_Witness ==
    /\ db_result.op = "delete_user_scores" /\ db_result.raised = "none"
    /\ db_result.value = 1
    /\ is_admin(players, db_result.args[1])
    /\ \E p \in players : p.username = db_result.args[2] /\ p.player_id # db_result.args[1]
    /\ \E r \in scores : r.player_id = db_result.args[1]
    /\ scores_of(players, scores, db_result.args[2]) = {}

\* the tongue rests: a single anchor cell, not retracting, no active loop
Idle == Len(tongue) = 1 /\ ~retracting /\ ~loop_active

\* the begin-extend signal: a KEYDOWN of SPACE in the event section (a KEYDOWN
\* of R leaves the mark of a reset)
BeginExtend == pc = "events" /\ pc' = "events" /\ extending' /\ outcome'.ext # "reset"

\* C28 (as amended): extending becomes true only through the begin-extend
\* signal, from Idle or from Retracting: a signal received while Retracting
\* stops the retraction, and extension resumes from the cells the tongue has
\* left. A signal received while a loop is active sets the flag as well, but
\* the tongue never grows while a loop is active.
C28_ExtendingEntered ==
    [][/\ (~extending /\ extending') => BeginExtend
       /\ BeginExtend => (extending' /\ ~retracting' /\ tongue' = tongue
                           /\ loop_active' = loop_active)
       /\ Len(tongue') > Len(tongue)
             => (pc = "update" /\ extending /\ ~retracting /\ ~loop_active)]_vars

\* C28 witness: the last update() removed a cell, the tongue still has more
\* than its anchor cell, and the begin-extend signal has made it extending
C28_Witness ==
    /\ pc = "events" /\ outcome.rtr = "popped"
    /\ extending /\ ~retracting /\ ~loop_active
    /\ Len(tongue) > 1

\* C28 (original): the Extending state is entered only from Idle through the
\* begin-extend signal; a begin-extend signal received while Retracting or
\* while a loop is active does not start or resume extension.
C28_Original ==
    [][/\ (~extending /\ extending') => (Idle /\ BeginExtend)
       /\ (BeginExtend /\ (retracting \/ loop_active)) => extending' = extending]_vars

\* the grid corners of the traced window
WindowCorners ==
    {<<i * grid_size, j * grid_size>> : i \in 0..TraceSide, j \in 0..3}

\* the cell whose top left corner is p
CellAt(p) == <<p[1] \div grid_size, p[2] \div grid_size>>

\* the unit sides, as pairs of ends, with a cell of the set on one side only
SeparatingSides(cells) ==
    {{p, <<p[1] + grid_size, p[2]>>} : p \in {q \in WindowCorners :
        (CellAt(q) \in cells) # (<<CellAt(q)[1], CellAt(q)[2] - 1>> \in cells)}}
    \cup
    {{p, <<p[1], p[2] + grid_size>>} : p \in {q \in WindowCorners :
        (CellAt(q) \in cells) # (<<CellAt(q)[1] - 1, CellAt(q)[2]>> \in cells)}}

Listed(edges, a, flipped) ==
    {AdjList(edges, a, flipped)[i] : i \in 1..Len(AdjList(edges, a, flipped))}

\* the corners of the emitted edges, either end
EdgeEnds(edges) == {e[1] : e \in edges} \cup {e[2] : e \in edges}

\* C30 (as amended): the adjacency structure built from the boundary edges is
\* directed: corner b is listed as a neighbour of corner a exactly when an
\* emitted edge runs from a to b, and corner a is then not listed as a
\* neighbour of corner b (in either order of the lists).
C30_AdjacencyDirected ==
    (loop_cells # {} /\ Len(loop_path) >= min_loop_area) =>
        LET es == BoundaryEdges(Cells(loop_path))
        IN \A flipped \in {{}, PinchCorners(es)} :
               \A a \in EdgeEnds(es) :
                   /\ Listed(es, a, flipped) = {b \in EdgeEnds(es) : <<a, b>> \in es}
                   /\ \A b \in Listed(es, a, flipped) : a \notin Listed(es, b, flipped)

\* C30 witness: two cells side by side; the corner after the start corner is
\* listed for the start corner, and the start corner is not listed for it
C30_Witness ==
    /\ pc = "trap" /\ loop_active
    /\ loop_cells = {<<0, 0>>, <<1, 0>>} /\ Cells(loop_path) = loop_cells
    /\ Listed(BoundaryEdges(loop_cells), <<0, 0>>, {}) = {<<20, 0>>}
    /\ Listed(BoundaryEdges(loop_cells), <<20, 0>>, {}) = {<<40, 0>>}

\* C30 (original): the adjacency structure is undirected: whenever corner b is
\* listed as a neighbour of corner a, corner a is listed as a neighbour of
\* corner b.
C30_Original ==
    (loop_cells # {} /\ Len(loop_path) >= min_loop_area) =>
        LET es == BoundaryEdges(Cells(loop_path))
        IN \A flipped \in {{}, PinchCorners(es)} :
               \A a \in EdgeEnds(es) :
                   \A b \in Listed(es, a, flipped) : a \in Listed(es, b, flipped)

\* the cells on the border of the rectangle of cells x0..x1 by y0..y1
RingCells(x0, x1, y0, y1) ==
    {c \in (x0..x1) \X (y0..y1) : c[1] \in {x0, x1} \/ c[2] \in {y0, y1}}

\* the rectangles of at least 2 by 2 cells of the traced window
WindowRectangles ==
    {r \in [x0 : 0..(TraceSide - 1), x1 : 0..(TraceSide - 1), y0 : 0..2, y1 : 0..2] :
        r.x1 > r.x0 /\ r.y1 > r.y0}

\* the integer points of the traced window and of a margin of 1 pixel around it
WindowPixels == (-1..(TraceSide * grid_size + 1)) \X (-1..(3 * grid_size + 1))

\* the points of a polygon
PointsOf(polygon) == {polygon[i] : i \in 1..Len(polygon)}

\* C31: for a loop whose cells are the border ring of a rectangle of w by h
\* cells (w, h >= 2), the traced polygon is the outer outline of the
\* rectangle, and point_in_polygon is true for every integer point strictly
\* inside the outline, the points of the enclosed hole included, and false for
\* every integer point strictly outside it.
C31_RingOutline ==
    \A r \in WindowRectangles :
        (pc = "trap" /\ loop_cells = RingCells(r.x0, r.x1, r.y0, r.y1)) =>
            LET left == r.x0 * grid_size
                right == (r.x1 + 1) * grid_size
                top == r.y0 * grid_size
                bottom == (r.y1 + 1) * grid_size
                outline == {p \in WindowCorners :
                               /\ p[1] \in left..right /\ p[2] \in top..bottom
                               /\ p[1] \in {left, right} \/ p[2] \in {top, bottom}}
            IN \A poly \in LoopPolygons :
                   /\ PointsOf(poly) = outline
                   /\ Len(poly) = Cardinality(outline)
                   /\ \A i \in 1..Len(poly) :
                          <<poly[i], poly[(i % Len(poly)) + 1]>> \in BoundaryEdges(loop_cells)
                   /\ \A q \in WindowPixels :
                          /\ (q[1] > left /\ q[1] < right /\ q[2] > top /\ q[2] < bottom)
                                => point_in_polygon(q[1], q[2], poly)
                          /\ (q[1] < left \/ q[1] > right \/ q[2] < top \/ q[2] > bottom)
                                => ~point_in_polygon(q[1], q[2], poly)

\* C31 witness: the ring of 8 cells around the cell the ant rests in has
\* trapped the ant, which is in the hole and in no cell of the ring
C31_Witness ==
    /\ pc = "countdown" /\ loop_active
    /\ loop_cells = RingCells(0, 2, 0, 2) /\ <<1, 1>> \notin loop_cells
    /\ Cardinality(loop_cells) = 8
    /\ trapped_ants # {} /\ \A a \in trapped_ants : ants[a]
    /\ TracePoints = {<<30, 30>>}

\* the update() calls a retraction still needs: move_cooldown for every cell,
\* less the ticks the timer has counted
TicksLeft == Len(tongue) * move_cooldown - move_timer

\* an update() of a retracting tongue
RetractingUpdate == pc = "update" /\ pc' = "trap" /\ retracting

\* C32: from any state with retracting = True, if update ticks keep occurring
\* and no begin-extend or reset signal arrives, the machine eventually reaches
\* Idle with a one-cell tongue and retracting = False, after at most
\* len(tongue) x move_cooldown ticks: every tick takes one off the ticks left,
\* and the tick that finds one left ends the retraction.
C32_RetractionEnds ==
    /\ retracting ~> (Len(tongue) = 1 /\ ~retracting /\ ~extending)
    /\ [][RetractingUpdate =>
             /\ TicksLeft >= 1 /\ TicksLeft <= Len(tongue) * move_cooldown
             /\ IF TicksLeft > 1
                THEN retracting' /\ TicksLeft' = TicksLeft - 1
                ELSE ~retracting' /\ ~extending' /\ Len(tongue') = 1]_vars

\* C32 witness: a tongue of MaxLen cells has retracted down to three, with
\* two ticks counted towards the next cell
C32_Witness ==
    /\ pc = "update" /\ retracting /\ ~extending
    /\ Len(tongue) = 3 /\ move_timer = 2
    /\ outcome.rtr = "wait"
    /\ TicksLeft = 3 * move_cooldown - 2

\* the frames a loop has been active for, the frame of the self-intersection
\* included, as the countdown section has counted them
FramesActive == capture_delay_frames - capture_timer

\* C33: every loop that becomes active is eventually cleared: if frames keep
\* advancing, loop_active returns to False within capture_delay_frames + 1
\* frames of the self-intersection. A loop that is active at the end of a frame
\* has ants trapped and has been counted for 1 to capture_delay_frames frames;
\* the countdown section of each frame counts one more, and the one that finds
\* capture_delay_frames counted clears the loop.
C33_LoopCleared ==
    /\ loop_active ~> ~loop_active
    /\ [][/\ (pc' = "events" /\ loop_active')
                => (trapped_ants' # {} /\ FramesActive' \in 1..capture_delay_frames)
          /\ CountdownStep
                => (IF FramesActive < capture_delay_frames
                    THEN loop_active' /\ FramesActive' = FramesActive + 1
                    ELSE ~loop_active')]_vars

\* C33 witness: the loop has been active for capture_delay_frames frames, with
\* an ant trapped, and the next frame is about to clear it
C33_Witness ==
    /\ pc = "events" /\ loop_active /\ trapped_ants # {}
    /\ capture_timer = 0 /\ FramesActive = capture_delay_frames

\* C34: in every reachable state, under any interleaving of SPACE keydown and
\* keyup, R and update ticks, extending and retracting are never both True; a
\* SPACE keydown in the middle of a retraction stops the retraction.
C34_NotBoth ==
    /\ [](~(extending /\ retracting))
    /\ [][(pc = "events" /\ pc' = "events" /\ retracting /\ extending')
              => ~retracting']_vars

\* C34 witness: SPACE went down while the tongue was retracting, after update()
\* had removed a cell: the tongue extends again and no longer retracts
C34_Witness ==
    /\ pc = "events" /\ extending /\ ~retracting
    /\ outcome.rtr = "popped" /\ Len(tongue) > 1

\* C35: at the end of every frame loop_active is True if and only if loop_cells
\* is non-empty, and whenever loop_active is True loop_cells is the set of the
\* cells of loop_path.
C35_LoopCellsAgree ==
    pc = "events" =>
        /\ loop_active <=> loop_cells # {}
        /\ loop_active => loop_cells = Cells(loop_path)

\* C35 witness: a frame ends with a loop active over the cells of its path,
\* ants trapped in it and the countdown running
C35_Witness ==
    /\ pc = "events" /\ loop_active /\ trapped_ants # {}
    /\ loop_cells # {} /\ loop_cells = Cells(loop_path)
    /\ capture_timer > 0 /\ capture_timer < capture_delay_frames

\* C36: every loop the state machine can form has at least min_loop_area cells:
\* in every reachable state with non-empty loop_cells, loop_path lists
\* min_loop_area cells or more, so get_loop_polygon_pixels returns the polygon of
\* the boundary walk and never the centroid-sorted points.
C36_WalkBranch ==
    loop_cells # {} =>
        /\ Len(loop_path) >= min_loop_area
        /\ Cardinality(loop_cells) >= min_loop_area
        /\ get_loop_polygon_pixels(loop_cells, loop_path, {})
               = TracePolygon(Cells(loop_path), {})

\* C36 witness: the smallest loop, formed by the head stepping back onto the cell
\* behind it, with exactly min_loop_area cells
C36_Witness ==
    /\ pc = "trap" /\ loop_active /\ outcome.ext = "loop"
    /\ Len(loop_path) = min_loop_area /\ Cardinality(loop_cells) = min_loop_area

\* C37: the head never moves back onto the cell immediately behind it: under any
\* interleaving of extend, stop-extend (partial retraction), direction keys and
\* ticks, an update() that detects a self-intersection never finds the new head
\* at index 1 of the tongue, so every loop_path has at least 4 cells.
C37_NoStepBack ==
    [][(pc = "update" /\ outcome'.ext = "loop")
           => /\ loop_path'[Len(loop_path')] # tongue[2]
              /\ Len(loop_path') >= 4]_vars

\* the points of a list are all different
NoRepeat(poly) == \A i, j \in 1..Len(poly) : poly[i] = poly[j] => i = j

C39_TrappedAgree ==
    /\ [](pc = "events" =>
              /\ \A a \in Ants : ants[a] <=> a \in trapped_ants
              /\ trapped_ants # {} => loop_active)
    /\ [][(loop_active /\ ~loop_active')
              => (trapped_ants' = {} /\ \A a \in Ants : ~ants'[a])]_vars

\* C39 witness: a capture has completed (the loop is cleared and loop_path still
\* holds its cells): no ant is trapped and trapped_ants is empty
C39_Witness ==
    /\ pc = "events" /\ ~loop_active /\ loop_path # <<>>
    /\ trapped_ants = {} /\ \A a \in Ants : ~ants[a]

====
